---- MODULE Spec2Model ----
(***************************************************************************)
(* no-more-timer-leaks: the timer shim of src/src/index.ts.                *)
(*                                                                         *)
(* The module replaces window.setTimeout / clearTimeout / setInterval /    *)
(* clearInterval by wrappers that delegate to the host's functions and     *)
(* keep two Maps of TimerInfo objects, and exposes window.TIMER_TRACKER    *)
(* (getActiveTimeouts, getActiveIntervals, report, copyReportToClipboard). *)
(*                                                                         *)
(* The host (the browser's own timer functions, bound in `original`) is    *)
(* the environment: one map of active timers shared by timeouts and        *)
(* intervals, a handle for a new timer chosen among the handles not in     *)
(* that map, one-shot timeouts leaving the map when they fire.             *)
(***************************************************************************)
EXTENDS Integers, Sequences, FiniteSets, TLC

\* ------------------------------------------------------------------ bounds
\* Handles the host hands out: 1..MaxHandle.
MaxHandle == 2
\* Operations in a run; every operation takes one unit of Date.now().
MaxNow == 4
\* Clipboard writes in flight at once.
MaxWrites == 2

Handles == 1..MaxHandle

\* ------------------------------------------------------------------ inputs
\* A handler the host's registration rejects with a TypeError.
BadHandler == "bad"

Frame(lead, text) == [lead |-> lead, text |-> text]

\* err.stack, split into lines, of a registration made from call site A.
StackA ==
    << Frame("", "Error"), Frame("    ", "at getStackTag"),
       Frame("    ", "at window.setTimeout"), Frame("    ", "at A") >>

\* A stack with no fourth line.
StackShort ==
    << Frame("", "Error"), Frame("    ", "at getStackTag"),
       Frame("    ", "at window.setTimeout") >>

\* The registrations the application makes: handler, delay (<<>> when the
\* argument is omitted), trailing arguments, and the stack the call has.
CallSites ==
    { [fn |-> "f", delay |-> <<5000>>, args |-> <<>>,    stack |-> StackA],
      [fn |-> "g", delay |-> <<>>,     args |-> <<"x">>, stack |-> StackA],
      [fn |-> "f", delay |-> <<1000>>, args |-> <<>>,    stack |-> StackShort],
      [fn |-> BadHandler, delay |-> <<0>>, args |-> <<>>, stack |-> StackA] }

\* The argument of a cancellation: undefined (<<>>) or a handle.
CancelArgs == {<<>>} \cup {<<h>> : h \in Handles}

\* What a caller writes into the delay field of a record it was handed.
CallerDelays == {999}

\* process.env.NODE_ENV at load: "development" stands for any value other
\* than 'production'; "noProcess" is a page where `process` is not defined.
NodeEnvs == {"development", "production", "noProcess"}

VARIABLES
    hasWindow,   \* typeof window !== 'undefined'
    nodeEnv,     \* process.env.NODE_ENV
    replaced,    \* window.setTimeout etc. are the wrappers of lines 37-77
    exposed,     \* window.TIMER_TRACKER is set
    atNative,    \* the wrapper's Map as it stood when the last call reached `original`
    writeSnaps,  \* per write in flight, the registries as copyReportToClipboard found them
    timeouts,    \* tracker.timeouts: Map, as its entries [id, ref] in Map order
    intervals,   \* tracker.intervals
    heap,        \* the TimerInfo objects: ref -> [createdAt, delay, stack]
    pending,     \* the host's map of active timers: handle -> timer
    now,         \* Date.now()
    op,          \* the call just made: name and arguments
    ret,         \* how it ended: [status, val]
    nativeLog,   \* the calls it made to the functions of `original`
    snap,        \* the array a caller holds from getActiveTimeouts/Intervals
    console,     \* the console calls it made
    clipboardApi, \* whether navigator.clipboard exists (a secure context)
    writes,      \* navigator.clipboard.writeText promises not yet settled
    clipboard,   \* the text on the system clipboard
    direct,      \* the host's map had the same calls gone to `original` directly
    registered,  \* per kind: handles registered and not since cancelled (same kind)
    fired,       \* timeout handles that fired and were not cancelled since
    keyAt        \* per kind: handle -> time its key entered the Map

vars ==
    << hasWindow, nodeEnv, replaced, exposed, atNative, writeSnaps, timeouts, intervals, heap, pending, now, op, ret, nativeLog, snap,
       console, clipboardApi, writes, clipboard, direct, registered, fired,
       keyAt >>

\* ------------------------------------------------------------------ Map
Entry(id, ref) == [id |-> id, ref |-> ref]

Keys(m) == { m[i].id : i \in DOMAIN m }

\* Mutant of MapSet: the record is set only when the key is new.
MapSetKeepFirst(m, id, ref) ==
    IF id \in Keys(m) THEN m ELSE Append(m, Entry(id, ref))

\* Mutant of MapSet: the registry kept as a list that is pushed to.
MapSetPush(m, id, ref) == Append(m, Entry(id, ref))

\* Mutant of MapSet: a key already present is deleted and set again, which
\* moves it to the end.
MapSetMoveToEnd(m, id, ref) ==
    Append(SelectSeq(m, LAMBDA e : e.id # id), Entry(id, ref))

\* Map.prototype.set: a key already present keeps its place.
MapSet(m, id, ref) ==
    IF id \in Keys(m)
    THEN [i \in DOMAIN m |-> IF m[i].id = id THEN Entry(id, ref) ELSE m[i]]
    ELSE Append(m, Entry(id, ref))

\* Mutant of MapDelete: splice(indexOf(id), 1), which removes the last entry
\* when the id is not found.
MapDeleteSplice(m, id) ==
    IF id \in Keys(m) THEN SelectSeq(m, LAMBDA e : e.id # id)
    ELSE SubSeq(m, 1, Len(m) - 1)

\* Map.prototype.delete.
MapDelete(m, id) == SelectSeq(m, LAMBDA e : e.id # id)

\* [...map.entries()]: a new array of the [id, info] pairs, the info objects
\* themselves (references), in Map order.
Entries(m) == [i \in DOMAIN m |-> Entry(m[i].id, m[i].ref)]

Refs(m) == { m[i].ref : i \in DOMAIN m }

\* The records of a Map: each key with the TimerInfo it holds.
Records(m, h) == [i \in DOMAIN m |-> [id |-> m[i].id, info |-> h[m[i].ref]]]

\* The objects still reachable from the Maps or from the caller's array.
Reachable(h, ts, is, sn) ==
    [r \in (DOMAIN h) \cap (Refs(ts) \cup Refs(is) \cup Refs(sn)) |-> h[r]]

\* ------------------------------------------------------------------ helpers
\* delay || 0
DelayOrZero(delay) == IF delay = <<>> \/ delay[1] = 0 THEN 0 ELSE delay[1]

\* String.prototype.trim on a stack line.
Trim(frame) == frame.text

\* getStackTag: stack[3]?.trim() || 'unknown'
GetStackTag(stack) ==
    IF Len(stack) >= 4 /\ Trim(stack[4]) # "" THEN Trim(stack[4]) ELSE "unknown"

TimerInfo(t, delay, stack) ==
    [createdAt |-> t, delay |-> DelayOrZero(delay), stack |-> GetStackTag(stack)]

Timer(kind, fn, delay, args) ==
    [kind |-> kind, fn |-> fn, delay |-> delay, args |-> args]

\* ------------------------------------------------------------------ host
\* original.setTimeout / original.setInterval on the host's map p: a TypeError
\* for a handler the host rejects, else a handle not in the map.
OriginalRegister(kind, p, fn, delay, args) ==
    IF fn = BadHandler
    THEN { [status |-> "throw", val |-> <<>>, pending |-> p] }
    ELSE { [status |-> "return", val |-> <<h>>,
            pending |-> (h :> Timer(kind, fn, delay, args)) @@ p] :
           h \in Handles \ DOMAIN p }

\* original.clearTimeout / original.clearInterval: the host removes the
\* handle's timer of either kind; an unknown handle is ignored.
OriginalCancel(p, id) == [h \in (DOMAIN p) \ {id} |-> p[h]]

\* The host runs a one-shot timeout: it leaves the map of active timers.
HostFires(p, h) == [x \in (DOMAIN p) \ {h} |-> p[x]]

NativeCall(name, fn, delay, args, id, result) ==
    [name |-> name, fn |-> fn, delay |-> delay, args |-> args, id |-> id,
     result |-> result]

Op(name, fn, delay, args, id) ==
    [name |-> name, fn |-> fn, delay |-> delay, args |-> args, id |-> id]

Returned(val) == [status |-> "return", val |-> val]
Thrown == [status |-> "throw", val |-> <<>>]

\* Mutant of Activates: the mode is not looked at.
ActivatesInAnyMode(w, mode) == w

\* Line 18: typeof window !== 'undefined' && process.env.NODE_ENV !==
\* 'production'. Without a window the right operand is not evaluated; with a
\* window and no `process`, evaluating it throws a ReferenceError and the
\* module body is left.
Activates(w, mode) == w /\ mode # "noProcess" /\ mode # "production"

\* The state once the module has been loaded.
Init ==
    /\ hasWindow \in BOOLEAN
    /\ nodeEnv \in NodeEnvs
    /\ replaced = Activates(hasWindow, nodeEnv)
    /\ exposed = Activates(hasWindow, nodeEnv)
    /\ atNative = <<>>
    /\ writeSnaps = <<>>
    /\ timeouts = <<>>
    /\ intervals = <<>>
    /\ heap = <<>>
    /\ pending = <<>>
    /\ now = 0
    /\ op = Op("load", "", <<>>, <<>>, <<>>)
    /\ ret = Returned(<<>>)
    /\ nativeLog = <<>>
    /\ snap = <<>>
    /\ console = <<>>
    /\ clipboardApi \in {"present", "absent"}
    /\ writes = <<>>
    /\ clipboard = <<>>
    /\ direct = <<>>
    /\ registered = [k \in {"timeout", "interval"} |-> {}]
    /\ fired = {}
    /\ keyAt = [k \in {"timeout", "interval"} |-> <<>>]

\* ------------------------------------------------------------------ wrappers
\* Mutant of PassThrough: the defaulted delay is handed on and the trailing
\* arguments are dropped.
PassThroughDefaulted(fn, delay, args) ==
    [fn |-> fn, delay |-> <<DelayOrZero(delay)>>, args |-> <<>>]

\* What the wrapper hands to original.setTimeout / original.setInterval:
\* (fn, delay, ...args).
PassThrough(fn, delay, args) == [fn |-> fn, delay |-> delay, args |-> args]

\* Mutant of TrackRegistered: the record is set whether or not the host
\* returned, under key 0 when it threw.
TrackRegisteredAnyway(m, outcome, ref) ==
    IF outcome.status = "throw" THEN MapSet(m, 0, ref)
    ELSE MapSet(m, outcome.val[1], ref)

\* Lines 42-47 / 63-68 on a Map m: the record is set once the host has
\* returned a handle; a throw of the host leaves the wrapper at line 42 / 63.
TrackRegistered(m, outcome, ref) ==
    IF outcome.status = "throw" THEN m ELSE MapSet(m, outcome.val[1], ref)

\* The TimerInfo object the wrapper creates, at ref, if the host returned.
AllocRegistered(h, outcome, ref, info) ==
    IF outcome.status = "throw" THEN h ELSE (ref :> info) @@ h

\* Mutant of TrackCancelled: the cancel wrapper empties its Map.
TrackCancelledAll(m, a) == IF a # <<>> THEN <<>> ELSE m

\* Lines 52-53 / 73-74 on a Map m: delete unless the id is undefined.
TrackCancelled(m, a) == IF a # <<>> THEN MapDelete(m, a[1]) ELSE m

\* Mutant of MapAtOriginalCancel: original is called before the delete.
MapBeforeDelete(m, a) == m

\* Lines 53-54 / 74-75: original.clearTimeout / original.clearInterval is
\* called after the delete, so the Map it runs against is the one the delete
\* left.
MapAtOriginalCancel(m, a) == TrackCancelled(m, a)

\* Mutant of TrackFired: the callback is wrapped and deletes the record.
TrackFiredRemoves(m, h) == MapDelete(m, h)

\* The wrappers hand the caller's fn to the host unwrapped, so a timer that
\* fires runs no code of the tracker: the Map stays as it is.
TrackFired(m, h) == m

\* The host's map had the same registration gone to `original` directly,
\* the host answering as it did.
DirectRegister(kind, c, outcome) ==
    IF outcome.status = "throw" THEN direct
    ELSE (outcome.val[1] :> Timer(kind, c.fn, c.delay, c.args)) @@ direct

DirectCancel(a) == IF a # <<>> THEN OriginalCancel(direct, a[1]) ELSE direct

\* window.setTimeout, lines 37-49.
SetTimeout(c) ==
    /\ replaced
    /\ now < MaxNow
    /\ LET t == now + 1
           p == PassThrough(c.fn, c.delay, c.args)
       IN  \E o \in OriginalRegister("timeout", pending, p.fn, p.delay, p.args) :
             /\ now' = t
             /\ pending' = o.pending
             /\ nativeLog' = << NativeCall("setTimeout", p.fn, p.delay, p.args, <<>>,
                                           [status |-> o.status, val |-> o.val]) >>
             /\ atNative' = <<timeouts>>
             /\ timeouts' = TrackRegistered(timeouts, o, t)
             /\ heap' = Reachable(
                    AllocRegistered(heap, o, t, TimerInfo(t, c.delay, c.stack)),
                    timeouts', intervals, snap)
             /\ ret' = [status |-> o.status, val |-> o.val]
             /\ op' = Op("setTimeout", c.fn, c.delay, c.args, <<>>)
             /\ direct' = DirectRegister("timeout", c, o)
             /\ registered' = IF o.status = "throw" THEN registered
                              ELSE [registered EXCEPT !["timeout"] = @ \cup {o.val[1]}]
             /\ keyAt' = IF o.status = "throw" \/ o.val[1] \in DOMAIN keyAt["timeout"]
                         THEN keyAt
                         ELSE [keyAt EXCEPT !["timeout"] = (o.val[1] :> t) @@ @]
             /\ console' = <<>>
             /\ UNCHANGED << hasWindow, nodeEnv, replaced, exposed, intervals, snap, fired, clipboardApi, writes, writeSnaps, clipboard >>

\* window.clearTimeout, lines 51-56.
ClearTimeout(a) ==
    /\ replaced
    /\ now < MaxNow
    /\ now' = now + 1
    /\ timeouts' = TrackCancelled(timeouts, a)
    /\ IF a # <<>>
       THEN /\ pending' = OriginalCancel(pending, a[1])
            /\ nativeLog' = << NativeCall("clearTimeout", "", <<>>, <<>>, a,
                                          Returned(<<>>)) >>
            /\ atNative' = << MapAtOriginalCancel(timeouts, a) >>
       ELSE /\ pending' = pending
            /\ nativeLog' = <<>>
            /\ atNative' = <<>>
    /\ heap' = Reachable(heap, timeouts', intervals, snap)
    /\ ret' = Returned(<<>>)
    /\ op' = Op("clearTimeout", "", <<>>, <<>>, a)
    /\ direct' = DirectCancel(a)
    /\ registered' = IF a = <<>> THEN registered
                     ELSE [registered EXCEPT !["timeout"] = @ \ {a[1]}]
    /\ fired' = IF a = <<>> THEN fired ELSE fired \ {a[1]}
    /\ keyAt' = IF a = <<>> THEN keyAt
                ELSE [keyAt EXCEPT !["timeout"] =
                        [h \in (DOMAIN @) \ {a[1]} |-> @[h]]]
    /\ console' = <<>>
    /\ UNCHANGED << hasWindow, nodeEnv, replaced, exposed, intervals, snap, clipboardApi, writes, writeSnaps, clipboard >>

\* window.setInterval, lines 58-70.
SetInterval(c) ==
    /\ replaced
    /\ now < MaxNow
    /\ LET t == now + 1
           p == PassThrough(c.fn, c.delay, c.args)
       IN  \E o \in OriginalRegister("interval", pending, p.fn, p.delay, p.args) :
             /\ now' = t
             /\ pending' = o.pending
             /\ nativeLog' = << NativeCall("setInterval", p.fn, p.delay, p.args, <<>>,
                                           [status |-> o.status, val |-> o.val]) >>
             /\ atNative' = <<intervals>>
             /\ intervals' = TrackRegistered(intervals, o, t)
             /\ heap' = Reachable(
                    AllocRegistered(heap, o, t, TimerInfo(t, c.delay, c.stack)),
                    timeouts, intervals', snap)
             /\ ret' = [status |-> o.status, val |-> o.val]
             /\ op' = Op("setInterval", c.fn, c.delay, c.args, <<>>)
             /\ direct' = DirectRegister("interval", c, o)
             /\ registered' = IF o.status = "throw" THEN registered
                              ELSE [registered EXCEPT !["interval"] = @ \cup {o.val[1]}]
             /\ keyAt' = IF o.status = "throw" \/ o.val[1] \in DOMAIN keyAt["interval"]
                         THEN keyAt
                         ELSE [keyAt EXCEPT !["interval"] = (o.val[1] :> t) @@ @]
             /\ console' = <<>>
             /\ UNCHANGED << hasWindow, nodeEnv, replaced, exposed, timeouts, snap, fired, clipboardApi, writes, writeSnaps, clipboard >>

\* Mutant of ClearInterval: the handle is deleted from both Maps.
ClearIntervalBoth(a) ==
    /\ replaced
    /\ now < MaxNow
    /\ now' = now + 1
    /\ intervals' = TrackCancelled(intervals, a)
    /\ timeouts' = TrackCancelled(timeouts, a)
    /\ IF a # <<>>
       THEN /\ pending' = OriginalCancel(pending, a[1])
            /\ nativeLog' = << NativeCall("clearInterval", "", <<>>, <<>>, a,
                                          Returned(<<>>)) >>
            /\ atNative' = << MapAtOriginalCancel(intervals, a) >>
       ELSE /\ pending' = pending
            /\ nativeLog' = <<>>
            /\ atNative' = <<>>
    /\ heap' = Reachable(heap, timeouts', intervals', snap)
    /\ ret' = Returned(<<>>)
    /\ op' = Op("clearInterval", "", <<>>, <<>>, a)
    /\ direct' = DirectCancel(a)
    /\ registered' = IF a = <<>> THEN registered
                     ELSE [registered EXCEPT !["interval"] = @ \ {a[1]}]
    /\ keyAt' = IF a = <<>> THEN keyAt
                ELSE [keyAt EXCEPT !["interval"] =
                        [h \in (DOMAIN @) \ {a[1]} |-> @[h]]]
    /\ console' = <<>>
    /\ UNCHANGED << hasWindow, nodeEnv, replaced, exposed, snap, fired, clipboardApi, writes, writeSnaps, clipboard >>

\* window.clearInterval, lines 72-77.
ClearInterval(a) ==
    /\ replaced
    /\ now < MaxNow
    /\ now' = now + 1
    /\ intervals' = TrackCancelled(intervals, a)
    /\ IF a # <<>>
       THEN /\ pending' = OriginalCancel(pending, a[1])
            /\ nativeLog' = << NativeCall("clearInterval", "", <<>>, <<>>, a,
                                          Returned(<<>>)) >>
            /\ atNative' = << MapAtOriginalCancel(intervals, a) >>
       ELSE /\ pending' = pending
            /\ nativeLog' = <<>>
            /\ atNative' = <<>>
    /\ heap' = Reachable(heap, timeouts, intervals', snap)
    /\ ret' = Returned(<<>>)
    /\ op' = Op("clearInterval", "", <<>>, <<>>, a)
    /\ direct' = DirectCancel(a)
    /\ registered' = IF a = <<>> THEN registered
                     ELSE [registered EXCEPT !["interval"] = @ \ {a[1]}]
    /\ keyAt' = IF a = <<>> THEN keyAt
                ELSE [keyAt EXCEPT !["interval"] =
                        [h \in (DOMAIN @) \ {a[1]} |-> @[h]]]
    /\ console' = <<>>
    /\ UNCHANGED << hasWindow, nodeEnv, replaced, exposed, timeouts, snap, fired, clipboardApi, writes, writeSnaps, clipboard >>

\* ------------------------------------------------------------------ firing
\* The host runs the callback of a pending one-shot timeout.
FireTimeout(h) ==
    /\ replaced
    /\ now < MaxNow
    /\ h \in DOMAIN pending
    /\ pending[h].kind = "timeout"
    /\ now' = now + 1
    /\ pending' = HostFires(pending, h)
    /\ direct' = HostFires(direct, h)
    /\ timeouts' = TrackFired(timeouts, h)
    /\ heap' = Reachable(heap, timeouts', intervals, snap)
    /\ fired' = fired \cup {h}
    /\ op' = Op("fireTimeout", pending[h].fn, <<>>, pending[h].args, <<h>>)
    /\ ret' = Returned(<<>>)
    /\ nativeLog' = <<>>
    /\ atNative' = <<>>
    /\ console' = <<>>
    /\ UNCHANGED << hasWindow, nodeEnv, replaced, exposed, intervals, snap, registered, keyAt, clipboardApi, writes, writeSnaps,
                    clipboard >>

\* The host runs the callback of a pending interval, which stays pending.
FireInterval(h) ==
    /\ replaced
    /\ now < MaxNow
    /\ h \in DOMAIN pending
    /\ pending[h].kind = "interval"
    /\ now' = now + 1
    /\ intervals' = TrackFired(intervals, h)
    /\ heap' = Reachable(heap, timeouts, intervals', snap)
    /\ op' = Op("fireInterval", pending[h].fn, <<>>, pending[h].args, <<h>>)
    /\ ret' = Returned(<<>>)
    /\ nativeLog' = <<>>
    /\ atNative' = <<>>
    /\ console' = <<>>
    /\ UNCHANGED << hasWindow, nodeEnv, replaced, exposed, timeouts, pending, direct, snap, registered, fired, keyAt,
                    clipboardApi, writes, writeSnaps, clipboard >>

\* ------------------------------------------------------------------ facade
\* TIMER_TRACKER.getActiveTimeouts, line 80.
GetActiveTimeouts ==
    /\ exposed
    /\ now < MaxNow
    /\ now' = now + 1
    /\ snap' = Entries(timeouts)
    /\ heap' = Reachable(heap, timeouts, intervals, snap')
    /\ op' = Op("getActiveTimeouts", "", <<>>, <<>>, <<>>)
    /\ ret' = Returned(<<>>)
    /\ nativeLog' = <<>>
    /\ atNative' = <<>>
    /\ console' = <<>>
    /\ UNCHANGED << hasWindow, nodeEnv, replaced, exposed, timeouts, intervals, pending, direct, registered, fired, keyAt,
                    clipboardApi, writes, writeSnaps, clipboard >>

\* TIMER_TRACKER.getActiveIntervals, line 81.
GetActiveIntervals ==
    /\ exposed
    /\ now < MaxNow
    /\ now' = now + 1
    /\ snap' = Entries(intervals)
    /\ heap' = Reachable(heap, timeouts, intervals, snap')
    /\ op' = Op("getActiveIntervals", "", <<>>, <<>>, <<>>)
    /\ ret' = Returned(<<>>)
    /\ nativeLog' = <<>>
    /\ atNative' = <<>>
    /\ console' = <<>>
    /\ UNCHANGED << hasWindow, nodeEnv, replaced, exposed, timeouts, intervals, pending, direct, registered, fired, keyAt,
                    clipboardApi, writes, writeSnaps, clipboard >>

\* The caller writes a field of a record of the array it holds:
\* snapshot[i][1].delay = d.
CallerWritesRecord(i, d) ==
    /\ now < MaxNow
    /\ i \in DOMAIN snap
    /\ now' = now + 1
    /\ heap' = [heap EXCEPT ![snap[i].ref].delay = d]
    /\ op' = Op("callerWritesRecord", "", <<d>>, <<>>, <<snap[i].id>>)
    /\ ret' = Returned(<<>>)
    /\ nativeLog' = <<>>
    /\ atNative' = <<>>
    /\ console' = <<>>
    /\ UNCHANGED << hasWindow, nodeEnv, replaced, exposed, timeouts, intervals, pending, direct, snap, registered, fired,
                    keyAt, clipboardApi, writes, writeSnaps, clipboard >>

\* The caller changes the array it holds: snapshot.pop().
CallerPopsArray ==
    /\ now < MaxNow
    /\ snap # <<>>
    /\ now' = now + 1
    /\ snap' = SubSeq(snap, 1, Len(snap) - 1)
    /\ heap' = Reachable(heap, timeouts, intervals, snap')
    /\ op' = Op("callerPopsArray", "", <<>>, <<>>, <<>>)
    /\ ret' = Returned(<<>>)
    /\ nativeLog' = <<>>
    /\ atNative' = <<>>
    /\ console' = <<>>
    /\ UNCHANGED << hasWindow, nodeEnv, replaced, exposed, timeouts, intervals, pending, direct, registered, fired, keyAt,
                    clipboardApi, writes, writeSnaps, clipboard >>

\* ------------------------------------------------------------------ report
Console(method, text, data) == [method |-> method, text |-> text, data |-> data]

\* Date.prototype.toLocaleTimeString: the time of day to the second.
LocaleTime(ms) == [format |-> "localeTime", seconds |-> ms \div 1000]

\* Date.prototype.toISOString: the instant to the millisecond.
IsoTime(ms) == [format |-> "iso", ms |-> ms]

\* (ms / 1000).toFixed(1): seconds, rounded to one fractional digit.
ToFixed1(ms) ==
    LET tenths == (ms + 50) \div 100
    IN  [whole |-> tenths \div 10, tenth |-> tenths % 10]

\* Array.prototype.join(', ').
Join(ids) == [separator |-> ", ", items |-> ids]

\* Mutant of ReportRows: the first entry is left out.
ReportRowsFromSecond(entries, h, t) ==
    [i \in 1..(Len(entries) - 1) |->
        [id      |-> entries[i + 1].id,
         delay   |-> h[entries[i + 1].ref].delay,
         created |-> LocaleTime(h[entries[i + 1].ref].createdAt),
         age     |-> [seconds |-> ToFixed1(t - h[entries[i + 1].ref].createdAt),
                      unit |-> "s"],
         origin  |-> h[entries[i + 1].ref].stack]]

\* timeouts.map(...) / intervals.map(...), lines 98-104 and 112-118.
ReportRows(entries, h, t) ==
    [i \in DOMAIN entries |->
        [id      |-> entries[i].id,
         delay   |-> h[entries[i].ref].delay,
         created |-> LocaleTime(h[entries[i].ref].createdAt),
         age     |-> [seconds |-> ToFixed1(t - h[entries[i].ref].createdAt),
                      unit |-> "s"],
         origin  |-> h[entries[i].ref].stack]]

\* One turn of the forEach of lines 125-132 on originMap, kept as its
\* entries in key order.
AddOrigin(om, id, origin) ==
    IF \E i \in DOMAIN om : om[i].origin = origin
    THEN [i \in DOMAIN om |->
            IF om[i].origin = origin
            THEN [origin |-> origin, count |-> om[i].count + 1,
                  ids |-> Append(om[i].ids, id)]
            ELSE om[i]]
    ELSE Append(om, [origin |-> origin, count |-> 1, ids |-> <<id>>])

RECURSIVE OriginMap(_, _, _)
\* originMap after the first n entries of [...timeouts, ...intervals].
OriginMap(all, h, n) ==
    IF n = 0 THEN <<>>
    ELSE AddOrigin(OriginMap(all, h, n - 1), all[n].id, h[all[n].ref].stack)

\* Mutant of Duplicates: the filter keeps count >= 1.
DuplicatesFromOne(om) ==
    [i \in DOMAIN om |->
        [origin |-> om[i].origin, count |-> om[i].count, ids |-> Join(om[i].ids)]]

\* Lines 134-140: the origins counted more than once.
Duplicates(om) ==
    LET kept == SelectSeq(om, LAMBDA e : e.count > 1)
    IN  [i \in DOMAIN kept |->
            [origin |-> kept[i].origin, count |-> kept[i].count,
             ids |-> Join(kept[i].ids)]]

\* Mutant of ReportOutput: the empty case lacks its `return`, so the
\* sections follow the notice.
ReportOutputNoReturn(ts, is, h, t) ==
    LET header == Console("groupCollapsed", "Active Timers Report", <<LocaleTime(t)>>)
    IN  (IF Len(ts) = 0 /\ Len(is) = 0
         THEN << header,
                 Console("info", "No active timeouts or intervals.", <<>>),
                 Console("groupEnd", "", <<>>) >>
         ELSE <<header>>)
        \o << Console("group", "Timeouts", <<>>),
              Console("table", "", ReportRows(ts, h, t)),
              Console("groupEnd", "", <<>>),
              Console("group", "Intervals", <<>>),
              Console("table", "", ReportRows(is, h, t)),
              Console("groupEnd", "", <<>>),
              Console("groupEnd", "", <<>>) >>

\* The console calls of report(), lines 83-148, made at time t.
ReportOutput(ts, is, h, t) ==
    LET header == Console("groupCollapsed", "Active Timers Report", <<LocaleTime(t)>>)
        dups   == Duplicates(OriginMap(ts \o is, h, Len(ts) + Len(is)))
    IN  IF Len(ts) = 0 /\ Len(is) = 0
        THEN << header,
                Console("info", "No active timeouts or intervals.", <<>>),
                Console("groupEnd", "", <<>>) >>
        ELSE <<header>>
             \o (IF Len(ts) > 0
                 THEN << Console("group", "Timeouts", <<>>),
                         Console("table", "", ReportRows(ts, h, t)),
                         Console("groupEnd", "", <<>>) >>
                 ELSE <<>>)
             \o (IF Len(is) > 0
                 THEN << Console("group", "Intervals", <<>>),
                         Console("table", "", ReportRows(is, h, t)),
                         Console("groupEnd", "", <<>>) >>
                 ELSE <<>>)
             \o (IF Len(dups) > 0
                 THEN << Console("group", "Duplicate Timer Origins", <<>>),
                         Console("table", "", dups),
                         Console("groupEnd", "", <<>>) >>
                 ELSE <<>>)
             \o << Console("groupEnd", "", <<>>) >>

\* Mutant of Report: the report empties the registries once printed.
ReportAndReset ==
    /\ exposed
    /\ now < MaxNow
    /\ now' = now + 1
    /\ console' = ReportOutput(Entries(timeouts), Entries(intervals), heap, now')
    /\ timeouts' = <<>>
    /\ intervals' = <<>>
    /\ heap' = Reachable(heap, timeouts', intervals', snap)
    /\ op' = Op("report", "", <<>>, <<>>, <<>>)
    /\ ret' = Returned(<<>>)
    /\ nativeLog' = <<>>
    /\ atNative' = <<>>
    /\ UNCHANGED << hasWindow, nodeEnv, replaced, exposed, pending, direct, snap, registered, fired, keyAt,
                    clipboardApi, writes, writeSnaps, clipboard >>

\* TIMER_TRACKER.report, lines 82-149.
Report ==
    /\ exposed
    /\ now < MaxNow
    /\ now' = now + 1
    /\ console' = ReportOutput(Entries(timeouts), Entries(intervals), heap, now')
    /\ op' = Op("report", "", <<>>, <<>>, <<>>)
    /\ ret' = Returned(<<>>)
    /\ nativeLog' = <<>>
    /\ atNative' = <<>>
    /\ UNCHANGED << hasWindow, nodeEnv, replaced, exposed, timeouts, intervals, heap, pending, direct, snap, registered,
                    fired, keyAt, clipboardApi, writes, writeSnaps, clipboard >>

\* ------------------------------------------------------------------ clipboard
\* The rows of lines 155-161 / 162-168.
ExportRows(entries, h, t) ==
    [i \in DOMAIN entries |->
        [id         |-> entries[i].id,
         delay      |-> h[entries[i].ref].delay,
         created    |-> IsoTime(h[entries[i].ref].createdAt),
         ageSeconds |-> ToFixed1(t - h[entries[i].ref].createdAt),
         origin     |-> h[entries[i].ref].stack]]

\* Mutant of ExportText: the intervals array is built from the timeouts.
ExportTextSwapped(ts, is, h, t) ==
    [indent |-> 2,
     json |-> [time      |-> LocaleTime(t),
               timeouts  |-> ExportRows(ts, h, t),
               intervals |-> ExportRows(ts, h, t)]]

\* JSON.stringify(data, null, 2) of the object of lines 153-169.
ExportText(ts, is, h, t) ==
    [indent |-> 2,
     json |-> [time      |-> LocaleTime(t),
               timeouts  |-> ExportRows(ts, h, t),
               intervals |-> ExportRows(is, h, t)]]

\* Mutant of StartWrite: one buffer shared by the writes in flight, so the
\* newest text overwrites the earlier ones.
StartWriteShared(q, text) == [j \in 1..(Len(q) + 1) |-> text]

\* navigator.clipboard.writeText(text): the string joins the writes that have
\* not settled yet.
StartWrite(q, text) == Append(q, text)

\* TIMER_TRACKER.copyReportToClipboard, lines 151-171: without
\* navigator.clipboard, reading writeText of undefined throws a TypeError.
CopyReportToClipboard ==
    /\ exposed
    /\ now < MaxNow
    /\ Len(writes) < MaxWrites
    /\ now' = now + 1
    /\ IF clipboardApi = "absent"
       THEN /\ ret' = Thrown
            /\ writes' = writes
            /\ writeSnaps' = writeSnaps
       ELSE /\ ret' = Returned(<<>>)
            /\ writes' = StartWrite(writes,
                    ExportText(Entries(timeouts), Entries(intervals), heap, now'))
            /\ writeSnaps' = Append(writeSnaps,
                    [timeouts  |-> Records(timeouts, heap),
                     intervals |-> Records(intervals, heap)])
    /\ op' = Op("copyReportToClipboard", "", <<>>, <<>>, <<>>)
    /\ nativeLog' = <<>>
    /\ atNative' = <<>>
    /\ console' = <<>>
    /\ UNCHANGED << hasWindow, nodeEnv, replaced, exposed, timeouts, intervals, heap, pending, direct, snap, registered,
                    fired, keyAt, clipboardApi, clipboard >>

Without(q, i) == [j \in 1..(Len(q) - 1) |-> IF j < i THEN q[j] ELSE q[j + 1]]

\* The clipboard write settles, in any order: .then of line 172.
WriteResolves(i) ==
    /\ now < MaxNow
    /\ i \in DOMAIN writes
    /\ now' = now + 1
    /\ clipboard' = <<writes[i]>>
    /\ writes' = Without(writes, i)
    /\ writeSnaps' = Without(writeSnaps, i)
    /\ console' = << Console("info", "Timer report copied to clipboard!", <<>>) >>
    /\ op' = Op("writeResolves", "", <<>>, <<>>, <<i>>)
    /\ ret' = Returned(<<>>)
    /\ nativeLog' = <<>>
    /\ atNative' = <<>>
    /\ UNCHANGED << hasWindow, nodeEnv, replaced, exposed, timeouts, intervals, heap, pending, direct, snap, registered,
                    fired, keyAt, clipboardApi >>

\* The clipboard write is refused: .catch of lines 173-182.
WriteRejects(i, err) ==
    /\ now < MaxNow
    /\ i \in DOMAIN writes
    /\ now' = now + 1
    /\ writes' = Without(writes, i)
    /\ writeSnaps' = Without(writeSnaps, i)
    /\ console' =
         IF err = "NotAllowedError"
         THEN << Console("warn", "Copy failed: Clipboard access denied.", <<>>) >>
         ELSE << Console("warn", "Failed to copy timer report:", <<err>>) >>
    /\ op' = Op("writeRejects", "", <<>>, <<>>, <<i>>)
    /\ ret' = Returned(<<>>)
    /\ nativeLog' = <<>>
    /\ atNative' = <<>>
    /\ UNCHANGED << hasWindow, nodeEnv, replaced, exposed, timeouts, intervals, heap, pending, direct, snap, registered,
                    fired, keyAt, clipboardApi, clipboard >>

\* ------------------------------------------------------------------ unwrapped
\* Where the module did not activate, the application's calls reach the
\* host's own functions: a registration.
NativeRegister(kind, c) ==
    /\ ~replaced
    /\ now < MaxNow
    /\ \E o \in OriginalRegister(kind, pending, c.fn, c.delay, c.args) :
         /\ now' = now + 1
         /\ pending' = o.pending
         /\ direct' = o.pending
         /\ ret' = [status |-> o.status, val |-> o.val]
         /\ op' = Op("native.register", c.fn, c.delay, c.args, <<>>)
    /\ nativeLog' = <<>>
    /\ atNative' = <<>>
    /\ console' = <<>>
    /\ UNCHANGED << hasWindow, nodeEnv, replaced, exposed, timeouts, intervals, heap,
                    snap, registered, fired, keyAt, clipboardApi, writes, writeSnaps, clipboard >>

\* A cancellation.
NativeCancel(a) ==
    /\ ~replaced
    /\ now < MaxNow
    /\ now' = now + 1
    /\ pending' = (IF a # <<>> THEN OriginalCancel(pending, a[1]) ELSE pending)
    /\ direct' = pending'
    /\ ret' = Returned(<<>>)
    /\ op' = Op("native.cancel", "", <<>>, <<>>, a)
    /\ nativeLog' = <<>>
    /\ atNative' = <<>>
    /\ console' = <<>>
    /\ UNCHANGED << hasWindow, nodeEnv, replaced, exposed, timeouts, intervals, heap,
                    snap, registered, fired, keyAt, clipboardApi, writes, writeSnaps, clipboard >>

\* The host runs a pending timer.
NativeFires(h) ==
    /\ ~replaced
    /\ now < MaxNow
    /\ h \in DOMAIN pending
    /\ now' = now + 1
    /\ pending' = (IF pending[h].kind = "timeout" THEN HostFires(pending, h)
                   ELSE pending)
    /\ direct' = pending'
    /\ ret' = Returned(<<>>)
    /\ op' = Op("native.fires", pending[h].fn, <<>>, pending[h].args, <<h>>)
    /\ nativeLog' = <<>>
    /\ atNative' = <<>>
    /\ console' = <<>>
    /\ UNCHANGED << hasWindow, nodeEnv, replaced, exposed, timeouts, intervals, heap,
                    snap, registered, fired, keyAt, clipboardApi, writes, writeSnaps, clipboard >>

Next ==
    \/ \E c \in CallSites : SetTimeout(c)
    \/ \E c \in CallSites : SetInterval(c)
    \/ \E h \in Handles : FireTimeout(h)
    \/ \E h \in Handles : FireInterval(h)
    \/ \E a \in CancelArgs : ClearTimeout(a)
    \/ \E a \in CancelArgs : ClearInterval(a)
    \/ GetActiveTimeouts
    \/ GetActiveIntervals
    \/ \E i \in Handles, d \in CallerDelays : CallerWritesRecord(i, d)
    \/ CallerPopsArray
    \/ Report
    \/ CopyReportToClipboard
    \/ \E i \in 1..MaxWrites : WriteResolves(i)
    \/ \E i \in 1..MaxWrites, err \in {"NotAllowedError", "TypeError"} :
          WriteRejects(i, err)
    \/ \E k \in {"timeout", "interval"}, c \in CallSites : NativeRegister(k, c)
    \/ \E a \in CancelArgs : NativeCancel(a)
    \/ \E h \in Handles : NativeFires(h)

Spec == Init /\ [][Next]_vars

\* ------------------------------------------------------------------ views
\* What a Map holds, read through its references: [id, TimerInfo] in order.
timeoutRecords == Records(timeouts, heap)
intervalRecords == Records(intervals, heap)

\* What getActiveTimeouts() / getActiveIntervals() return in this state.
ActiveTimeouts == Entries(timeouts)
ActiveIntervals == Entries(intervals)

Ids(entries) == [i \in DOMAIN entries |-> entries[i].id]

Registrations == {"setTimeout", "setInterval"}
Cancellations == {"clearTimeout", "clearInterval"}
FacadeCalls ==
    {"getActiveTimeouts", "getActiveIntervals", "report", "copyReportToClipboard"}
CallerWrites == {"callerWritesRecord", "callerPopsArray"}

C2_ActiveTimeoutsArePending ==
    \A i \in DOMAIN ActiveTimeouts :
        /\ ActiveTimeouts[i].id \in DOMAIN pending
        /\ pending[ActiveTimeouts[i].id].kind = "timeout"

C4_CancelRemovesOrIsNoOp ==
    [][ op'.name \in Cancellations =>
          LET before == IF op'.name = "clearTimeout" THEN ActiveTimeouts
                        ELSE ActiveIntervals
              after  == IF op'.name = "clearTimeout" THEN ActiveTimeouts'
                        ELSE ActiveIntervals'
          IN
          /\ ret'.status = "return"
          /\ op'.id # <<>> => op'.id[1] \notin Keys(after)
          /\ (op'.id = <<>> \/ op'.id[1] \notin Keys(before)) =>
                /\ ActiveTimeouts' = ActiveTimeouts
                /\ ActiveIntervals' = ActiveIntervals
                /\ timeoutRecords' = timeoutRecords
                /\ intervalRecords' = intervalRecords
          /\ (op.name = op'.name /\ op.id = op'.id) =>
                /\ timeoutRecords' = timeoutRecords
                /\ intervalRecords' = intervalRecords
      ]_vars

\* One timeout is registered and a handle the registry does not hold has
\* just been cancelled.
C4_Witness ==
    /\ now = 2
    /\ op.name = "clearTimeout"
    /\ op.id # <<>>
    /\ Len(timeouts) = 1
    /\ op.id[1] \notin Keys(timeouts)

\* ------------------------------------------------------------------ C5
\* C5: when the host's registration throws, the wrapper throws to its
\* caller and both registries are after the call as they were before it.
C5_ThrowInsertsNothing ==
    [][ (op'.name \in Registrations /\ nativeLog'[1].result.status = "throw") =>
          /\ ret'.status = "throw"
          /\ ActiveTimeouts' = ActiveTimeouts
          /\ ActiveIntervals' = ActiveIntervals
          /\ timeoutRecords' = timeoutRecords
          /\ intervalRecords' = intervalRecords
      ]_vars

\* A registration has just thrown while a record was in the registry.
C5_Witness ==
    /\ op.name = "setTimeout"
    /\ ret.status = "throw"
    /\ Len(timeouts) > 0

\* ------------------------------------------------------------------ C6
\* C6: a wrapped registration calls the host's registration once, with the
\* caller's handler, delay and trailing arguments, and returns what the host
\* returned; the host's pending timers are those it would hold had every
\* call gone to the host's functions directly.
C6_Transparent ==
    /\ op.name \in Registrations =>
          /\ Len(nativeLog) = 1
          /\ nativeLog[1].name = op.name
          /\ nativeLog[1].fn = op.fn
          /\ nativeLog[1].delay = op.delay
          /\ nativeLog[1].args = op.args
          /\ ret = nativeLog[1].result
    /\ pending = direct

\* A registration with the delay omitted and a trailing argument returned
\* the host's handle.
C6_Witness ==
    /\ op.name = "setInterval"
    /\ op.delay = <<>>
    /\ op.args # <<>>
    /\ ret.status = "return"
    /\ ret.val[1] \in DOMAIN pending
    /\ Len(timeouts) > 0

\* ------------------------------------------------------------------ C7
\* The array the caller holds, read through its references.
snapRecords == Records(snap, heap)

\* C7: what getActiveTimeouts() / getActiveIntervals() returned is a copy: a
\* later registration, cancellation or firing does not change it, and no
\* write of the caller to the array or to a record in it shows in the
\* registry.
C7_SnapshotIsCopy ==
    [][ /\ op'.name \in Registrations \cup Cancellations
                        \cup {"fireTimeout", "fireInterval"} =>
              snapRecords' = snapRecords
        /\ op'.name \in CallerWrites =>
              /\ timeoutRecords' = timeoutRecords
              /\ intervalRecords' = intervalRecords
      ]_vars

\* ------------------------------------------------------------------ C8
CreatedAt(m, i) == heap[m[i].ref].createdAt

C9_FacadeOnlyReads ==
    [][ op'.name \in FacadeCalls =>
          /\ ActiveTimeouts' = ActiveTimeouts
          /\ ActiveIntervals' = ActiveIntervals
          /\ timeoutRecords' = timeoutRecords
          /\ intervalRecords' = intervalRecords
          /\ pending' = pending
      ]_vars

\* report() has just run with a record in each registry and a timer pending.
C9_Witness ==
    /\ op.name = "report"
    /\ Len(timeouts) > 0
    /\ Len(intervals) > 0
    /\ pending # <<>>

\* ------------------------------------------------------------------ C10
\* The rows of the duplicate-origins table report() printed, if it printed one.
DuplicatesTable ==
    IF \E i \in DOMAIN console : console[i].text = "Duplicate Timer Origins"
    THEN console[(CHOOSE i \in DOMAIN console :
                    console[i].text = "Duplicate Timer Origins") + 1].data
    ELSE <<>>

\* The handles of the records of a Map that carry an origin, in Map order.
IdsWithOrigin(recs, o) == Ids(SelectSeq(recs, LAMBDA r : r.info.stack = o))

OriginsRecorded ==
    { timeoutRecords[i].info.stack : i \in DOMAIN timeoutRecords }
        \cup { intervalRecords[i].info.stack : i \in DOMAIN intervalRecords }

\* C10: after report(), the duplicate-origins table has a row for an origin
\* exactly when more than one record of the two registries carries it; the
\* row's count is the number of those records and its ids are their
\* handles; an origin carried by one record has no row.
C10_DuplicatesTable ==
    op.name = "report" =>
        LET rows == DuplicatesTable
            ids(o) == IdsWithOrigin(timeoutRecords, o)
                        \o IdsWithOrigin(intervalRecords, o)
        IN  /\ \A o \in OriginsRecorded :
                  (\E i \in DOMAIN rows : rows[i].origin = o) <=> Len(ids(o)) > 1
            /\ \A i \in DOMAIN rows :
                  /\ rows[i].origin \in OriginsRecorded
                  /\ rows[i].count = Len(ids(rows[i].origin))
                  /\ rows[i].ids.items = ids(rows[i].origin)
                  /\ \A j \in DOMAIN rows : rows[j].origin = rows[i].origin => j = i

\* report() has just printed a row counting one timeout and one interval
\* of the same call site.
C10_Witness ==
    /\ op.name = "report"
    /\ Len(timeouts) = 1
    /\ Len(intervals) = 1
    /\ Len(DuplicatesTable) = 1
    /\ DuplicatesTable[1].count = 2
    /\ DuplicatesTable[1].ids.items = <<timeouts[1].id, intervals[1].id>>


\* ------------------------------------------------------------------ C11
\* C11: copyReportToClipboard() never throws synchronously to its caller:
\* the call returns, and a write that fails settles with one warning on the
\* console.
C11_CopyNeverThrows ==
    /\ op.name = "copyReportToClipboard" => ret.status = "return"
    /\ op.name = "writeRejects" =>
         /\ Len(console) = 1
         /\ console[1].method = "warn"

\* ------------------------------------------------------------------ C12
\* C12: the JSON that copyReportToClipboard() hands to the clipboard has a
\* timeouts array and an intervals array as long as timeoutRecords and
\* intervalRecords are at the call, entry i carrying the id, delay and origin
\* of record i.
RowsMatch(rows, recs) ==
    /\ Len(rows) = Len(recs)
    /\ \A i \in DOMAIN recs :
         /\ rows[i].id = recs[i].id
         /\ rows[i].delay = recs[i].info.delay
         /\ rows[i].origin = recs[i].info.stack

C12_ExportMatchesRegistries ==
    [][ (op'.name = "copyReportToClipboard" /\ ret'.status = "return") =>
          /\ Len(writes') = Len(writes) + 1
          /\ writes'[Len(writes')].indent = 2
          /\ RowsMatch(writes'[Len(writes')].json.timeouts, timeoutRecords)
          /\ RowsMatch(writes'[Len(writes')].json.intervals, intervalRecords)
      ]_vars

\* A copy was made with one timeout and one interval of different delays.
C12_Witness ==
    /\ op.name = "copyReportToClipboard"
    /\ ret.status = "return"
    /\ Len(timeouts) = 1
    /\ Len(intervals) = 1
    /\ timeoutRecords[1].info.delay # intervalRecords[1].info.delay
    /\ Len(writes) >= 1
    /\ Len(writes[Len(writes)].json.timeouts) = 1

\* ------------------------------------------------------------------ C13
\* C13: copyReportToClipboard() calls in flight together are independent:
\* nothing but a settle changes a text in flight, a new call leaves the
\* earlier texts as they are, and each write settles with the text built
\* from the registries of its own call and with one notice of its own.
C13_WritesAreIndependent ==
    [][ /\ Len(writes) = Len(writeSnaps)
        /\ \A i \in DOMAIN writes :
             /\ RowsMatch(writes[i].json.timeouts, writeSnaps[i].timeouts)
             /\ RowsMatch(writes[i].json.intervals, writeSnaps[i].intervals)
        /\ op'.name \notin {"copyReportToClipboard", "writeResolves", "writeRejects"}
             => writes' = writes /\ clipboard' = clipboard
        /\ op'.name = "copyReportToClipboard" =>
             /\ SubSeq(writes', 1, Len(writes)) = writes
             /\ clipboard' = clipboard
        /\ op'.name = "writeResolves" =>
             /\ op'.id[1] \in DOMAIN writes
             /\ clipboard' = << writes[op'.id[1]] >>
             /\ RowsMatch(clipboard'[1].json.timeouts,
                          writeSnaps[op'.id[1]].timeouts)
             /\ RowsMatch(clipboard'[1].json.intervals,
                          writeSnaps[op'.id[1]].intervals)
             /\ writes' = Without(writes, op'.id[1])
             /\ Len(console') = 1
             /\ console'[1].method = "info"
        /\ op'.name = "writeRejects" =>
             /\ clipboard' = clipboard
             /\ writes' = Without(writes, op'.id[1])
             /\ Len(console') = 1
             /\ console'[1].method = "warn"
      ]_vars

\* Two copies were in flight, a registration having come between them; the
\* first has settled with the text of its call and the second still waits.
C13_Witness ==
    /\ op.name = "writeResolves"
    /\ Len(clipboard) = 1
    /\ clipboard[1].json.timeouts = <<>>
    /\ Len(writes) = 1
    /\ Len(writes[1].json.timeouts) = 1
    /\ Len(timeouts) = 1


\* ------------------------------------------------------------------ C14
\* C14: when both registries are empty, report() emits the header, the one
\* "No active timeouts or intervals." notice and the end of the group, and
\* no table.
C14_EmptyReport ==
    (op.name = "report" /\ timeouts = <<>> /\ intervals = <<>>) =>
        /\ Len(console) = 3
        /\ console[1].method = "groupCollapsed"
        /\ console[1].text = "Active Timers Report"
        /\ console[2] = Console("info", "No active timeouts or intervals.", <<>>)
        /\ console[3].method = "groupEnd"
        /\ \A i \in DOMAIN console : console[i].method \notin {"table", "group"}

\* report() ran on empty registries after a timer had come and gone.
C14_Witness ==
    /\ op.name = "report"
    /\ timeouts = <<>>
    /\ intervals = <<>>
    /\ now >= 3
    /\ Len(console) = 3

\* ------------------------------------------------------------------ C15
\* The places in the console output where a group of the given title opens.
SectionAt(title) ==
    { i \in DOMAIN console :
        console[i].method = "group" /\ console[i].text = title }

\* The section of the given title is there once, its table holding one row
\* per record, in order.
SectionShows(title, recs) ==
    /\ Cardinality(SectionAt(title)) = 1
    /\ \A i \in SectionAt(title) :
         /\ i + 2 \in DOMAIN console
         /\ console[i + 1].method = "table"
         /\ Len(console[i + 1].data) = Len(recs)
         /\ \A j \in DOMAIN recs : console[i + 1].data[j].id = recs[j].id
         /\ console[i + 2].method = "groupEnd"

SectionsInOrder ==
    /\ \A i \in SectionAt("Timeouts") :
         \A j \in SectionAt("Intervals") \cup SectionAt("Duplicate Timer Origins") :
            i < j
    /\ \A i \in SectionAt("Intervals") :
         \A j \in SectionAt("Duplicate Timer Origins") : i < j

\* C15 as stated: whenever at least one timer is recorded, report() emits a
\* timeouts table with one row per timeoutRecords entry and an intervals
\* table with one row per intervalRecords entry, the sections in the order
\* timeouts, intervals, duplicates.
C15_BothTablesAlways ==
    (op.name = "report" /\ (timeouts # <<>> \/ intervals # <<>>)) =>
        /\ SectionShows("Timeouts", timeoutRecords)
        /\ SectionShows("Intervals", intervalRecords)
        /\ SectionsInOrder

\* C15, amended: whenever at least one timer is recorded, report() emits a
\* timeouts table exactly when timeoutRecords is not empty, with one row per
\* entry, and an intervals table exactly when intervalRecords is not empty,
\* with one row per entry; the sections that are emitted come in the order
\* timeouts, intervals, duplicates.
C15_TablesOfNonEmptyRegistries ==
    (op.name = "report" /\ (timeouts # <<>> \/ intervals # <<>>)) =>
        /\ IF timeouts # <<>> THEN SectionShows("Timeouts", timeoutRecords)
           ELSE SectionAt("Timeouts") = {}
        /\ IF intervals # <<>> THEN SectionShows("Intervals", intervalRecords)
           ELSE SectionAt("Intervals") = {}
        /\ Cardinality({ i \in DOMAIN console : console[i].method = "table" })
             = Cardinality(SectionAt("Timeouts")) + Cardinality(SectionAt("Intervals"))
                 + Cardinality(SectionAt("Duplicate Timer Origins"))
        /\ SectionsInOrder

\* report() printed all three sections.
C15_Witness ==
    /\ op.name = "report"
    /\ SectionAt("Timeouts") # {}
    /\ SectionAt("Intervals") # {}
    /\ SectionAt("Duplicate Timer Origins") # {}


\* ------------------------------------------------------------------ C16
\* C16: loaded in production mode or without a window, the module does
\* nothing: no window.TIMER_TRACKER, none of the four timer functions
\* replaced, and the application's timers leave no record; the functions are
\* replaced and the facade exposed only with a window and a mode that is not
\* production, and they are with a window in development mode.
C16_NoOpOutsideDevelopmentWindow ==
    /\ (~hasWindow \/ nodeEnv = "production") =>
          /\ ~replaced
          /\ ~exposed
          /\ timeouts = <<>>
          /\ intervals = <<>>
          /\ op.name \in {"load", "native.register", "native.cancel", "native.fires"}
    /\ (replaced \/ exposed) => (hasWindow /\ nodeEnv # "production")
    /\ (hasWindow /\ nodeEnv = "development") => (replaced /\ exposed)

\* In production with a window, the application has a timer pending in the
\* host.
C16_Witness ==
    /\ hasWindow
    /\ nodeEnv = "production"
    /\ op.name = "native.register"
    /\ ret.status = "return"
    /\ pending # <<>>

\* ------------------------------------------------------------------ C17
\* C17: for a defined handle, window.clearTimeout / window.clearInterval
\* deletes the record from its Map and then calls the host's cancel once
\* with that handle, whether or not the handle was in the Map; for an
\* undefined handle neither a Map nor the host is touched.
C17_DeleteThenCancelOnce ==
    [][ op'.name \in Cancellations =>
          IF op'.id # <<>>
          THEN /\ Len(nativeLog') = 1
               /\ nativeLog'[1].name = op'.name
               /\ nativeLog'[1].id = op'.id
               /\ Len(atNative') = 1
               /\ op'.id[1] \notin Keys(atNative'[1])
               /\ atNative'[1] = (IF op'.name = "clearTimeout"
                                  THEN timeouts' ELSE intervals')
               /\ op'.id[1] \notin DOMAIN pending'
          ELSE /\ nativeLog' = <<>>
               /\ atNative' = <<>>
               /\ timeouts' = timeouts
               /\ intervals' = intervals
               /\ pending' = pending
      ]_vars

\* window.clearTimeout was called with a handle that had no record in the
\* timeouts Map, other records being there: the host was called once.
C17_Witness ==
    /\ op.name = "clearTimeout"
    /\ op.id # <<>>
    /\ op.id[1] \in Keys(intervals)
    /\ timeouts # <<>>
    /\ Len(nativeLog) = 1
    /\ Len(atNative) = 1

\* ------------------------------------------------------------------ C18
\* C18: window.setTimeout and window.clearTimeout never change the
\* intervals Map, window.setInterval and window.clearInterval never change
\* the timeouts Map, also for a handle that is a key of both.
C18_RegistriesIndependent ==
    [][ /\ op'.name \in {"setTimeout", "clearTimeout"} =>
             /\ intervals' = intervals
             /\ Records(intervals', heap') = intervalRecords
        /\ op'.name \in {"setInterval", "clearInterval"} =>
             /\ timeouts' = timeouts
             /\ Records(timeouts', heap') = timeoutRecords
      ]_vars

\* window.setInterval returned a handle that is a key of the timeouts Map
\* too.
C18_Witness ==
    /\ op.name = "setInterval"
    /\ ret.status = "return"
    /\ ret.val[1] \in Keys(timeouts)
    /\ ret.val[1] \in Keys(intervals)

\* ------------------------------------------------------------------ C19
\* C19: where the wrappers are installed, every timer pending in the host
\* has a record under its handle in the Map of its kind.
C19_NeverUnderCounts ==
    replaced =>
        \A h \in DOMAIN pending :
            /\ pending[h].kind = "timeout" => h \in Keys(timeouts)
            /\ pending[h].kind = "interval" => h \in Keys(intervals)

\* An interval has just fired and is still pending, with its record, while
\* the timeouts Map holds a handle that is no longer pending.
C19_Witness ==
    /\ replaced
    /\ op.name = "fireInterval"
    /\ op.id[1] \in DOMAIN pending
    /\ op.id[1] \in Keys(intervals)
    /\ Keys(timeouts) \ DOMAIN pending # {}

\* ------------------------------------------------------------------ C20
\* The call site of the last registration.
LastSite ==
    CHOOSE c \in CallSites :
        c.fn = op.fn /\ c.delay = op.delay /\ c.args = op.args

\* The records of m under the handle id.
RecordsOf(m, id) == SelectSeq(Records(m, heap), LAMBDA r : r.id = id)

\* C20: each Map holds one record per handle; after a registration that
\* returned handle h, also one whose earlier record was still there, the one
\* record under h carries the createdAt, delay and origin of that
\* registration; after a cancellation of h there is none.
C20_LatestRegistrationWins ==
    /\ Len(timeouts) = Cardinality(Keys(timeouts))
    /\ Len(intervals) = Cardinality(Keys(intervals))
    /\ (op.name \in Registrations /\ ret.status = "return") =>
          LET m == IF op.name = "setTimeout" THEN timeouts ELSE intervals
              recs == RecordsOf(m, ret.val[1])
          IN  /\ Len(recs) = 1
              /\ recs[1].info.createdAt = now
              /\ recs[1].info.delay = (IF op.delay = <<>> THEN 0 ELSE op.delay[1])
              /\ recs[1].info.stack = GetStackTag(LastSite.stack)
    /\ (op.name = "clearTimeout" /\ op.id # <<>>) => op.id[1] \notin Keys(timeouts)
    /\ (op.name = "clearInterval" /\ op.id # <<>>) => op.id[1] \notin Keys(intervals)

\* A timeout fired without being cancelled and its handle was handed out
\* again to window.setTimeout.
C20_Witness ==
    /\ op.name = "setTimeout"
    /\ ret.status = "return"
    /\ ret.val[1] \in DOMAIN keyAt["timeout"]
    /\ keyAt["timeout"][ret.val[1]] < now
    /\ ret.val[1] \in fired

====
